---- MODULE Spec2Model ----
(***************************************************************************)
(* LuminaReader: chapter detection, content extraction and the reading-    *)
(* pass helpers (src/utils/chapterUtils.ts), the highlight operations of   *)
(* the article store (stores/articleStore.ts) and the callbacks of the     *)
(* reader screen that use them.                                            *)
(*                                                                         *)
(* Strings are sequences of one-character strings, so that offsets,        *)
(* lengths, trimming and the four heading patterns are computed character  *)
(* by character as the JavaScript does.                                    *)
(***************************************************************************)
EXTENDS Integers, Sequences, FiniteSets, TLC

VARIABLES
    content,     \* the string handed to detectChapters
    calls,       \* the values returned by the calls of detectChapters so far
    articles,    \* ArticleState.articles
    clock,       \* the wall clock read by new Date()
    nextId,      \* number of identifiers generateId has handed out
    thrown,      \* the error the last store operation raised, "none" when it returned
    returned,    \* the last call of a pure helper: its name, arguments and result
    currentArticleId,  \* ArticleState.currentArticleId
    folders,     \* FolderState.folders
    walk         \* the position of a running call of getFolderPath

vars == <<content, calls, articles, clock, nextId, thrown, returned,
          currentArticleId, folders, walk>>

chapterVars == <<content, calls>>
storeVars == <<articles, clock, nextId, thrown>>
utilVars == <<returned>>
selectionVars == <<currentArticleId>>
folderVars == <<folders, walk>>

-----------------------------------------------------------------------------
(* Bounds of the model.                                                    *)

MaxLines == 3      \* lines of a content built from SampleLines
MaxChars == 4      \* length of a content built from SmallAlphabet
MaxSeed == 2       \* distinct outcomes of Date.now()/Math.random() per call

-----------------------------------------------------------------------------
(* Characters.                                                             *)

UpperChars == <<"A","B","C","D","E","F","G","H","I","J","K","L","M",
                "N","O","P","Q","R","S","T","U","V","W","X","Y","Z">>
LowerChars == <<"a","b","c","d","e","f","g","h","i","j","k","l","m",
                "n","o","p","q","r","s","t","u","v","w","x","y","z">>

Upper == {UpperChars[i] : i \in 1..26}
Digits == {"0","1","2","3","4","5","6","7","8","9"}

\* \s of a JavaScript regular expression, and what String.prototype.trim removes
Whitespace == {" ", "\t", "\n", "\r"}

\* . of a JavaScript regular expression: anything but a line terminator
IsDot(c) == c \notin {"\n", "\r"}

\* canonicalisation of the /i flag
ToLower(c) ==
    IF c \in Upper THEN LowerChars[CHOOSE i \in 1..26 : UpperChars[i] = c] ELSE c

LowerSeq(s) == [i \in 1..Len(s) |-> ToLower(s[i])]

-----------------------------------------------------------------------------
(* String helpers.                                                         *)

RECURSIVE TrimStart(_)
TrimStart(s) ==
    IF s = <<>> THEN s
    ELSE IF Head(s) \in Whitespace THEN TrimStart(Tail(s)) ELSE s

RECURSIVE TrimEnd(_)
TrimEnd(s) ==
    IF s = <<>> THEN s
    ELSE IF s[Len(s)] \in Whitespace THEN TrimEnd(SubSeq(s, 1, Len(s) - 1)) ELSE s

\* String.prototype.trim
trim(s) == TrimEnd(TrimStart(s))

\* content.split('\n')
RECURSIVE split(_)
split(s) ==
    IF \E i \in 1..Len(s) : s[i] = "\n"
    THEN LET i == CHOOSE k \in 1..Len(s) :
                      s[k] = "\n" /\ \A j \in 1..(k - 1) : s[j] # "\n"
         IN  <<SubSeq(s, 1, i - 1)>> \o split(SubSeq(s, i + 1, Len(s)))
    ELSE <<s>>

\* lines.join('\n'), the inverse of split
RECURSIVE Join(_)
Join(ls) ==
    IF ls = <<>> THEN <<>>
    ELSE IF Len(ls) = 1 THEN ls[1]
    ELSE ls[1] \o <<"\n">> \o Join(Tail(ls))

\* length of the longest run of characters of set S in s that starts at position p
RECURSIVE Run(_, _, _)
Run(s, p, S) ==
    IF p >= 1 /\ p <= Len(s) /\ s[p] \in S THEN 1 + Run(s, p + 1, S) ELSE 0

\* s has the (lower-case) word w at position p, compared as /i compares
HasWordAt(s, p, w) ==
    /\ p + Len(w) - 1 <= Len(s)
    /\ LowerSeq(SubSeq(s, p, p + Len(w) - 1)) = w

AllDot(s, from) == \A i \in from..Len(s) : IsDot(s[i])

-----------------------------------------------------------------------------
(* The four heading patterns of detectChapters.  Each operator returns      *)
(* NoMatch or the capture groups of String.prototype.match.                 *)

NoMatch == [matched |-> FALSE]

\* the number k of characters given to a greedy \s+ that starts at position p
\* of s, has w whitespace characters available and is followed by (.+)$ : the
\* largest k that leaves a non-empty rest of . characters; 0 when there is none
SpaceThenRest(s, p, w) ==
    LET ok == {k \in 1..w : p + k <= Len(s) /\ AllDot(s, p + k)}
    IN  IF ok = {} THEN 0 ELSE CHOOSE k \in ok : \A j \in ok : j <= k

\* /^(#{1,6})\s+(.+)$/
MatchMarkdownOneHash(t) ==
    LET h == Run(t, 1, {"#"})
        w == Run(t, h + 1, Whitespace)
        k == SpaceThenRest(t, h + 1, w)
    IN  IF h >= 1 /\ h <= 6 /\ k >= 1
        THEN [matched |-> TRUE, m1 |-> SubSeq(t, 1, 1),
              m2 |-> SubSeq(t, h + k + 1, Len(t))]
        ELSE NoMatch

MatchMarkdown(t) ==
    LET h == Run(t, 1, {"#"})
        w == Run(t, h + 1, Whitespace)
        k == SpaceThenRest(t, h + 1, w)
    IN  IF h >= 1 /\ h <= 6 /\ k >= 1
        THEN [matched |-> TRUE, m1 |-> SubSeq(t, 1, h),
              m2 |-> SubSeq(t, h + k + 1, Len(t))]
        ELSE NoMatch

\* [IVXLCDM0-9] under the /i flag
NumeralChars ==
    {"I","V","X","L","C","D","M","i","v","x","l","c","d","m"} \cup Digits

\* One|Two|...|Ten, in the order of the alternation
NumberWords == <<
    <<"o","n","e">>, <<"t","w","o">>, <<"t","h","r","e","e">>,
    <<"f","o","u","r">>, <<"f","i","v","e">>, <<"s","i","x">>,
    <<"s","e","v","e","n">>, <<"e","i","g","h","t">>,
    <<"n","i","n","e">>, <<"t","e","n">> >>

\* [\s:.-]
Separators == Whitespace \cup {":", ".", "-"}

\* the length of group 2 of the chapter pattern at position q, which must be
\* followed by a separator and a rest of . characters; 0 when there is none
ChapterNumberLen(t, q) ==
    LET r == Run(t, q, NumeralChars)
        fits(n) == /\ n >= 1
                   /\ q + n <= Len(t)
                   /\ t[q + n] \in Separators
                   /\ AllDot(t, q + n + 1)
        words == {i \in 1..Len(NumberWords) :
                      HasWordAt(t, q, NumberWords[i]) /\ fits(Len(NumberWords[i]))}
    IN  IF fits(r) THEN r
        ELSE IF words # {}
             THEN Len(NumberWords[CHOOSE i \in words : \A j \in words : i <= j])
             ELSE 0

\* /^(Chapter|CHAPTER|Ch\.|ch\.)\s+([IVXLCDM0-9]+|One|...|Ten)[\s:.-](.*)$/i
MatchChapterWord(t) ==
    LET p == IF HasWordAt(t, 1, <<"c","h","a","p","t","e","r">>) THEN 7
             ELSE IF HasWordAt(t, 1, <<"c","h",".">>) THEN 3 ELSE 0
        w == Run(t, p + 1, Whitespace)
        q == p + w + 1
        n == ChapterNumberLen(t, q)
    IN  IF p >= 1 /\ w >= 1 /\ n >= 1
        THEN [matched |-> TRUE, m1 |-> SubSeq(t, 1, p),
              m2 |-> SubSeq(t, q, q + n - 1),
              m3 |-> SubSeq(t, q + n + 1, Len(t))]
        ELSE NoMatch

\* the end of the longest (?:\d+\.)* that starts at position p (p - 1 when empty)
RECURSIVE NumberGroupsEnd(_, _)
NumberGroupsEnd(t, p) ==
    LET d == Run(t, p, Digits)
    IN  IF d >= 1 /\ p + d <= Len(t) /\ t[p + d] = "."
        THEN NumberGroupsEnd(t, p + d + 1)
        ELSE p - 1

\* /^(\d+\.(?:\d+\.)*)\s+(.+)$/
MatchNumbered(t) ==
    LET e == NumberGroupsEnd(t, 1)
        w == Run(t, e + 1, Whitespace)
        k == SpaceThenRest(t, e + 1, w)
    IN  IF e >= 1 /\ k >= 1
        THEN [matched |-> TRUE, m1 |-> SubSeq(t, 1, e),
              m2 |-> SubSeq(t, e + k + 1, Len(t))]
        ELSE NoMatch

\* /^([A-Z][A-Z\s]{10,})$/
MatchAllCaps(t) ==
    IF /\ Len(t) >= 11
       /\ t[1] \in Upper
       /\ \A i \in 2..Len(t) : t[i] \in Upper \cup Whitespace
    THEN [matched |-> TRUE, m1 |-> t]
    ELSE NoMatch

\* match[1].split('.').length
SplitDotLength(s) == Cardinality({i \in 1..Len(s) : s[i] = "."}) + 1

\* the title of a chapter-pattern match: match[3] trimmed, or
\* `${match[1]} ${match[2]}` when that is empty
ChapterWordTitleNoFallback(m) == trim(m.m3)

ChapterWordTitleUntrimmed(m) ==
    IF m.m3 # <<>> THEN m.m3 ELSE m.m1 \o <<" ">> \o m.m2

ChapterWordTitle(m) ==
    IF trim(m.m3) # <<>> THEN trim(m.m3) ELSE m.m1 \o <<" ">> \o m.m2

\* the for loop over chapterPatterns: the first pattern that matches the trimmed
\* line decides title and level; pattern is 0 when no pattern matches
HeadingAllCapsFirst(t) ==
    LET m0 == MatchMarkdown(t)
        m1 == MatchChapterWord(t)
        m2 == MatchNumbered(t)
        m3 == MatchAllCaps(t)
    IN  IF m0.matched
        THEN [pattern |-> 1, title |-> trim(m0.m2), level |-> Len(m0.m1)]
        ELSE IF m3.matched
        THEN [pattern |-> 4, title |-> trim(m3.m1), level |-> 1]
        ELSE IF m1.matched
        THEN [pattern |-> 2, title |-> ChapterWordTitle(m1), level |-> 1]
        ELSE IF m2.matched
        THEN [pattern |-> 3, title |-> trim(m2.m2), level |-> SplitDotLength(m2.m1)]
        ELSE [pattern |-> 0, title |-> <<>>, level |-> 1]

Heading(t) ==
    LET m0 == MatchMarkdown(t)
        m1 == MatchChapterWord(t)
        m2 == MatchNumbered(t)
        m3 == MatchAllCaps(t)
    IN  IF m0.matched
        THEN [pattern |-> 1, title |-> trim(m0.m2), level |-> Len(m0.m1)]
        ELSE IF m1.matched
        THEN [pattern |-> 2, title |-> ChapterWordTitle(m1), level |-> 1]
        ELSE IF m2.matched
        THEN [pattern |-> 3, title |-> trim(m2.m2), level |-> SplitDotLength(m2.m1)]
        ELSE IF m3.matched
        THEN [pattern |-> 4, title |-> trim(m3.m1), level |-> 1]
        ELSE [pattern |-> 0, title |-> <<>>, level |-> 1]

-----------------------------------------------------------------------------
(* detectChapters.                                                         *)

\* generateId(): `${Date.now()}-${Math.random()...}`.  seed stands for what the
\* clock and the random generator give during one call, n counts the
\* identifiers made during the call
generateId(seed, n) == <<seed, n>>

\* the chapter record pushed for a heading
NewChapterLevelFromId(id, title, offset, contentLength, level) ==
    [id |-> id, title |-> title, startOffset |-> offset,
     endOffset |-> contentLength, level |-> id[1]]

NewChapterShortEnd(id, title, offset, contentLength, level) ==
    [id |-> id, title |-> title, startOffset |-> offset,
     endOffset |-> contentLength - 1, level |-> level]

NewChapter(id, title, offset, contentLength, level) ==
    [id |-> id, title |-> title, startOffset |-> offset,
     endOffset |-> contentLength, level |-> level]

\* "Close previous chapter if exists"
ClosePreviousNever(chapters, offset) == chapters

ClosePrevious(chapters, offset) ==
    IF Len(chapters) > 0
    THEN [chapters EXCEPT ![Len(chapters)].endOffset = offset]
    ELSE chapters

\* currentOffset += line.length + 1
AdvanceOffsetStuck(offset, line) == offset

AdvanceOffset(offset, line) == offset + Len(line) + 1

\* the body of lines.forEach, from line i on
RECURSIVE ScanLines(_, _, _, _, _, _)
ScanLines(lines, i, offset, chapters, contentLength, seed) ==
    IF i > Len(lines) THEN chapters
    ELSE LET h == Heading(trim(lines[i]))
             pushed ==
                 IF h.pattern # 0 /\ h.title # <<>>
                 THEN Append(ClosePrevious(chapters, offset),
                             NewChapter(generateId(seed, Len(chapters) + 1),
                                        h.title, offset, contentLength, h.level))
                 ELSE chapters
         IN  ScanLines(lines, i + 1, AdvanceOffset(offset, lines[i]),
                       pushed, contentLength, seed)

FullContent == <<"F","u","l","l"," ","C","o","n","t","e","n","t">>

\* "If no chapters found, create a single chapter for the entire content"
FallbackChapter(id, contentLength) ==
    [id |-> id, title |-> FullContent, startOffset |-> 0,
     endOffset |-> contentLength, level |-> 1]

detectChapters(c, seed) ==
    LET found == ScanLines(split(c), 1, 0, <<>>, Len(c), seed)
    IN  IF Len(found) = 0
        THEN <<FallbackChapter(generateId(seed, 1), Len(c))>>
        ELSE found

-----------------------------------------------------------------------------
(* The contents the chapter detector is run on.                            *)

SampleLines == {
    <<>>,
    <<"a","b">>,
    <<" ","#"," ","A"," ">>,
    <<"#","#"," ","b">>,
    <<"C","h","a","p","t","e","r"," ","1",":"," ","G","o">>,
    <<"c","h","."," ","I","V",".">>,
    <<"1",".","2","."," ","S">>,
    <<"C","H","A","P","T","E","R"," ","O","N","E"," ","T","W","O">>,
    <<"I","N","T","R","O","D","U","C","T","I","O","N">> }

SmallAlphabet == {"#", " ", "\n", "a", "1", "."}

LineContents ==
    UNION {{Join(ls) : ls \in [1..n -> SampleLines]} : n \in 0..MaxLines}

CharContents == UNION {[1..n -> SmallAlphabet] : n \in 0..MaxChars}

Contents == LineContents \cup CharContents

Seeds == 1..MaxSeed

\* The contents for the scenarios of the heading patterns: the two example
\* contents, and every content of up to MaxHeadingLines lines of which each
\* matches one of the patterns, two of them or none.
MaxHeadingLines == 2

ScenarioMarkdown ==
    <<"#", " ", "I", "n", "t", "r", "o", "\n", "h", "e", "l", "l", "o",
      "\n", "#", "#", " ", "D", "e", "t", "a", "i", "l", "s", "\n",
      "w", "o", "r", "l", "d", "\n">>

ScenarioChapterWord ==
    <<"C", "h", "a", "p", "t", "e", "r", " ", "1", ":", " ", "B", "e",
      "g", "i", "n", "n", "i", "n", "g", "s", "\n", "t", "e", "x", "t",
      " ", "h", "e", "r", "e", "\n", "C", "h", "a", "p", "t", "e", "r",
      " ", "2", ":", " ", "M", "i", "d", "d", "l", "e", "\n", "m", "o",
      "r", "e", " ", "t", "e", "x", "t", "\n">>

HeadingSampleLines == {
    <<"#", " ", "A">>,
    <<"#", "#", "#", " ", "b", " ", "c">>,
    <<"C", "h", "a", "p", "t", "e", "r", " ", "1", ":", " ", "G", "o">>,
    <<"c", "h", ".", " ", "I", "V", ".">>,
    <<"1", ".", " ", "a">>,
    <<"1", ".", "2", ".", " ", "S">>,
    <<"1", ".", "2", ".", "3", ".", " ", "t">>,
    <<"C", "H", "A", "P", "T", "E", "R", " ", "O", "N", "E", " ", "T",
      "W", "O">>,
    <<"I", "N", "T", "R", "O", "D", "U", "C", "T", "I", "O", "N">>,
    <<"a", "b">> }

HeadingContents ==
    {ScenarioMarkdown, ScenarioChapterWord}
        \cup UNION {{Join(ls) : ls \in [1..n -> HeadingSampleLines]} :
                        n \in 0..MaxHeadingLines}

-----------------------------------------------------------------------------
(* Specification of the chapter detector: a content is chosen, then         *)
(* detectChapters is called on it twice.                                    *)

NoArticles == <<>>

\* currentArticleId: null
NoCurrentArticle == <<>>

\* folders: []
NoFolders == <<>>

\* no call of getFolderPath is running
Idle == [running |-> FALSE]

\* no pure helper has been called yet
NoResult == [op |-> "none"]

InitChapters ==
    /\ content \in Contents
    /\ calls = <<>>
    /\ articles = NoArticles
    /\ clock = 0
    /\ nextId = 0
    /\ thrown = "none"
    /\ returned = NoResult
    /\ currentArticleId = NoCurrentArticle
    /\ folders = NoFolders
    /\ walk = Idle

\* detectChapters(content), first call
DetectChapters ==
    /\ Len(calls) = 0
    /\ \E seed \in Seeds : calls' = <<detectChapters(content, seed)>>
    /\ UNCHANGED <<content, storeVars, utilVars,
                 selectionVars, folderVars>>

\* detectChapters(content), called again on the same content
DetectChaptersAgain ==
    /\ Len(calls) = 1
    /\ \E seed \in Seeds : calls' = Append(calls, detectChapters(content, seed))
    /\ UNCHANGED <<content, storeVars, utilVars,
                 selectionVars, folderVars>>

NextChapters == DetectChapters \/ DetectChaptersAgain

SpecChapters == InitChapters /\ [][NextChapters]_vars

InitHeadings ==
    /\ content \in HeadingContents
    /\ calls = <<>>
    /\ articles = NoArticles
    /\ clock = 0
    /\ nextId = 0
    /\ thrown = "none"
    /\ returned = NoResult
    /\ currentArticleId = NoCurrentArticle
    /\ folders = NoFolders
    /\ walk = Idle

SpecHeadings == InitHeadings /\ [][NextChapters]_vars

\* getCurrentChapter(chapters, currentPosition, totalContentLength): the
\* 0-based index of the first chapter that holds the position, the last
\* chapter when none does
getCurrentChapter(chapters, currentPosition, totalContentLength) ==
    IF Len(chapters) = 0 THEN 0
    ELSE LET holding == {i \in 1..Len(chapters) :
                            /\ currentPosition >= chapters[i].startOffset
                            /\ currentPosition < chapters[i].endOffset}
         IN  IF holding # {}
             THEN (CHOOSE i \in holding : \A j \in holding : i <= j) - 1
             ELSE Len(chapters) - 1

\* getCurrentChapter is called with a list of chapters and a position
GetCurrentChapter(chapters, currentPosition) ==
    /\ returned' = [op |-> "getCurrentChapter", chapters |-> chapters,
                    position |-> currentPosition,
                    result |-> getCurrentChapter(chapters, currentPosition,
                                                 Len(content))]
    /\ UNCHANGED <<storeVars, chapterVars,
                 selectionVars, folderVars>>

\* detectChapters is called on a content, then getCurrentChapter with the
\* chapters it returned, or with no chapters, and a position of the content
NextCurrent ==
    \/ DetectChapters
    \/ \E chapters \in {calls[k] : k \in 1..Len(calls)} \cup {<<>>} :
          \E currentPosition \in 0..Len(content) :
             GetCurrentChapter(chapters, currentPosition)

SpecCurrent == InitHeadings /\ [][NextCurrent]_vars

-----------------------------------------------------------------------------
(* The article store (useArticleStore): articles and their highlights.      *)

MaxClock == 1        \* last value of the wall clock
MaxIds == 3          \* identifiers generateId hands out in one run
MaxOrderIds == 4     \* the same, in the runs of SpecOrder

\* HighlightColor
HighlightColors == {"yellow", "green", "blue", "pink", "purple", "orange"}

\* the values the store operations are called with
ArticleContents == {<<"a","b">>}
Texts == {<<"a">>}
ColorArgs == {"green"}
DefaultHighlightColor == "yellow"
NoteArgs == {<<"n">>}

\* (startOffset, endOffset) arguments: a range inside a content of length 2,
\* one with start >= end, one with start < 0 and end > length
RangeArgs == {<<0, 1>>, <<1, 1>>, <<0 - 1, 3>>}

\* an identifier generateId never returns, and one it returned long ago
MissingId == <<0, 0>>
StaleId == <<0, 0 - 1>>

\* updates: Partial<Highlight> values passed to updateHighlight
UpdateArgs ==
    {[id |-> StaleId, articleId |-> StaleId, text |-> <<"b">>,
      startOffset |-> 0, endOffset |-> 3]}

ArticleIds == {articles[i].id : i \in 1..Len(articles)}
HighlightIds ==
    UNION {{articles[i].highlights[j].id : j \in 1..Len(articles[i].highlights)} :
               i \in 1..Len(articles)}

\* the highlights and the content of the articles with the given id
HighlightsOf(as, articleId) ==
    {as[i].highlights : i \in {j \in 1..Len(as) : as[j].id = articleId}}

ContentsOf(articleId) ==
    {articles[i].content : i \in {j \in 1..Len(articles) : articles[j].id = articleId}}

\* new Date().toISOString()
Now == clock

\* { ...h, ...updates }
Spread(h, updates) ==
    [f \in DOMAIN h \cup DOMAIN updates |->
        IF f \in DOMAIN updates THEN updates[f] ELSE h[f]]

\* highlights.filter((h) => h.id !== highlightId)
RECURSIVE WithoutHighlight(_, _)
WithoutHighlight(highlights, highlightId) ==
    IF highlights = <<>> THEN <<>>
    ELSE IF Head(highlights).id # highlightId
         THEN <<Head(highlights)>> \o WithoutHighlight(Tail(highlights), highlightId)
         ELSE WithoutHighlight(Tail(highlights), highlightId)

\* the store after construction
Init ==
    /\ content = <<>>
    /\ calls = <<>>
    /\ articles = NoArticles
    /\ clock = 0
    /\ nextId = 0
    /\ thrown = "none"
    /\ returned = NoResult
    /\ currentArticleId = NoCurrentArticle
    /\ folders = NoFolders
    /\ walk = Idle

\* time passes between two operations
Tick ==
    /\ clock < MaxClock
    /\ clock' = clock + 1
    /\ UNCHANGED <<articles, nextId, thrown, chapterVars, utilVars,
                 selectionVars, folderVars>>

\* addArticle(articleData)
AddArticle(articleContent) ==
    /\ articles' =
          <<[content |-> articleContent,
             id |-> generateId(Now, nextId + 1),
             savedAt |-> Now, updatedAt |-> Now, highlights |-> <<>>,
             syncStatus |-> "local"]>> \o articles
    /\ nextId' = nextId + 1
    /\ thrown' = "none"
    /\ UNCHANGED <<clock, chapterVars, utilVars,
                 selectionVars, folderVars>>

\* the new highlights array of addHighlight
WithNewHighlightOnly(highlights, newHighlight) == <<newHighlight>>

WithNewHighlightFirst(highlights, newHighlight) == <<newHighlight>> \o highlights

WithNewHighlight(highlights, newHighlight) == Append(highlights, newHighlight)

\* addHighlight(articleId, highlightData).  ord is a history field: the number
\* of the identifier drawn for the highlight, which no operation reads or writes
AddHighlight(articleId, text, color, startOffset, endOffset) ==
    /\ LET newHighlight ==
               [id |-> generateId(Now, nextId + 1), articleId |-> articleId,
                text |-> text, color |-> color,
                startOffset |-> startOffset, endOffset |-> endOffset,
                createdAt |-> Now, updatedAt |-> Now, syncStatus |-> "local",
                ord |-> nextId + 1]
       IN  articles' =
               [i \in 1..Len(articles) |->
                   IF articles[i].id = articleId
                   THEN [articles[i] EXCEPT
                            !.highlights = WithNewHighlight(@, newHighlight),
                            !.updatedAt = Now,
                            !.syncStatus = "pending"]
                   ELSE articles[i]]
    /\ nextId' = nextId + 1
    /\ thrown' = "none"
    /\ UNCHANGED <<clock, chapterVars, utilVars,
                 selectionVars, folderVars>>

\* { ...h, ...updates, updatedAt: now, syncStatus: 'pending' }
UpdatedHighlight(h, updates, now) ==
    [Spread(h, updates) EXCEPT !.updatedAt = now, !.syncStatus = "pending"]

\* updateHighlight(articleId, highlightId, updates)
UpdateHighlight(articleId, highlightId, updates) ==
    /\ articles' =
          [i \in 1..Len(articles) |->
              IF articles[i].id = articleId
              THEN [articles[i] EXCEPT
                       !.highlights =
                           [j \in 1..Len(@) |->
                               IF @[j].id = highlightId
                               THEN UpdatedHighlight(@[j], updates, Now)
                               ELSE @[j]],
                       !.updatedAt = Now,
                       !.syncStatus = "pending"]
              ELSE articles[i]]
    /\ thrown' = "none"
    /\ UNCHANGED <<clock, nextId, chapterVars, utilVars,
                 selectionVars, folderVars>>

\* updateHighlightNote(articleId, highlightId, note)
UpdateHighlightNote(articleId, highlightId, note) ==
    UpdateHighlight(articleId, highlightId, [note |-> note])

\* updateHighlightColor(articleId, highlightId, color)
UpdateHighlightColor(articleId, highlightId, color) ==
    UpdateHighlight(articleId, highlightId, [color |-> color])

\* deleteHighlight(articleId, highlightId)
DeleteHighlightEverywhere(articleId, highlightId) ==
    /\ articles' =
          [i \in 1..Len(articles) |->
              [articles[i] EXCEPT
                  !.highlights = WithoutHighlight(@, highlightId),
                  !.updatedAt = Now,
                  !.syncStatus = "pending"]]
    /\ thrown' = "none"
    /\ UNCHANGED <<clock, nextId, chapterVars, utilVars,
                 selectionVars, folderVars>>

DeleteHighlight(articleId, highlightId) ==
    /\ articles' =
          [i \in 1..Len(articles) |->
              IF articles[i].id = articleId
              THEN [articles[i] EXCEPT
                       !.highlights = WithoutHighlight(@, highlightId),
                       !.updatedAt = Now,
                       !.syncStatus = "pending"]
              ELSE articles[i]]
    /\ thrown' = "none"
    /\ UNCHANGED <<clock, nextId, chapterVars, utilVars,
                 selectionVars, folderVars>>

\* (articleId, highlightId) arguments: every highlight id in use and an unknown
\* one for every article of the store, and an unknown article
HighlightCallArgs ==
    (ArticleIds \X (HighlightIds \cup {MissingId})) \cup {<<MissingId, MissingId>>}

Next ==
    \/ Tick
    \/ \E c \in ArticleContents : nextId < MaxIds /\ AddArticle(c)
    \/ \E a \in ArticleIds \cup {MissingId}, t \in Texts, r \in RangeArgs :
          nextId < MaxIds /\ AddHighlight(a, t, DefaultHighlightColor, r[1], r[2])
    \/ \E p \in HighlightCallArgs, u \in UpdateArgs : UpdateHighlight(p[1], p[2], u)
    \/ \E p \in HighlightCallArgs, n \in NoteArgs : UpdateHighlightNote(p[1], p[2], n)
    \/ \E p \in HighlightCallArgs, c \in ColorArgs : UpdateHighlightColor(p[1], p[2], c)
    \/ \E p \in HighlightCallArgs : DeleteHighlight(p[1], p[2])

Spec == Init /\ [][Next]_vars

\* The highlight operations on one article and one valid range: runs long
\* enough for a highlight to be deleted between two others.
NextOrder ==
    \/ Tick
    \/ \E c \in ArticleContents :
          nextId < MaxOrderIds /\ articles = NoArticles /\ AddArticle(c)
    \/ \E a \in ArticleIds, t \in Texts :
          nextId < MaxOrderIds /\ AddHighlight(a, t, DefaultHighlightColor, 0, 1)
    \/ \E p \in HighlightCallArgs, u \in UpdateArgs \cup {[note |-> n] : n \in NoteArgs} :
          UpdateHighlight(p[1], p[2], u)
    \/ \E p \in HighlightCallArgs : DeleteHighlight(p[1], p[2])

SpecOrder == Init /\ [][NextOrder]_vars

\* The highlight operations on several articles, each addressed to every
\* article and every highlight identifier of the store, all within one tick of
\* the clock.
MaxFrameIds == 4     \* identifiers generateId hands out in the runs of SpecFrame

NextFrame ==
    \/ \E c \in ArticleContents : nextId < MaxFrameIds /\ AddArticle(c)
    \/ \E a \in ArticleIds \cup {MissingId}, t \in Texts :
          nextId < MaxFrameIds /\ AddHighlight(a, t, DefaultHighlightColor, 0, 1)
    \/ \E p \in HighlightCallArgs, n \in NoteArgs : UpdateHighlightNote(p[1], p[2], n)
    \/ \E p \in HighlightCallArgs : DeleteHighlight(p[1], p[2])

SpecFrame == Init /\ [][NextFrame]_vars

-----------------------------------------------------------------------------
(* The reader screen (ReaderScreen) over the article store.                 *)

MaxReaderIds == 3    \* identifiers generateId hands out in the runs of SpecReader

\* the contents of the articles the reader screen is opened on: one without a
\* heading and one with a heading on its first line
ReaderContents == ArticleContents \cup {<<"#", " ", "A", "\n", "b">>}

\* String.prototype.substring(start, end): both indices are clamped to
\* 0..length and exchanged when start > end
Clamp(i, length) == IF i < 0 THEN 0 ELSE IF i > length THEN length ELSE i

substring(s, start, end) ==
    LET a == Clamp(start, Len(s))
        b == Clamp(end, Len(s))
        from == IF a <= b THEN a ELSE b
        to == IF a <= b THEN b ELSE a
    IN  SubSeq(s, from + 1, to)

\* the texts a selection gesture on the body of the article can report: the
\* non-empty pieces of the displayed content
Selections(displayed) ==
    {SubSeq(displayed, i, j) : i \in 1..Len(displayed), j \in 1..Len(displayed)}
        \ {<<>>}

\* handleCreateHighlight(color), with selectedText as handleTextSelection left it
HandleCreateHighlight(articleId, selectedText, color) ==
    /\ selectedText # <<>>
    /\ articleId \in ArticleIds
    /\ AddHighlight(articleId, selectedText, color, 0, Len(selectedText))

\* { ...r, [field]: value }
WithField(r, field, value) ==
    [f \in DOMAIN r \cup {field} |-> IF f = field THEN value ELSE r[f]]

\* the articles after detectAndUpdateChapters(articleId): the chapters of the
\* article are computed again from its content and cached on the article
ChaptersDropHighlights(as, articleId, now) ==
    [i \in 1..Len(as) |->
        IF as[i].id = articleId
        THEN [WithField(as[i], "chapters", detectChapters(as[i].content, now))
                 EXCEPT !.highlights = <<>>]
        ELSE as[i]]

ChaptersDetected(as, articleId, now) ==
    [i \in 1..Len(as) |->
        IF as[i].id = articleId
        THEN WithField(as[i], "chapters", detectChapters(as[i].content, now))
        ELSE as[i]]

\* detectAndUpdateChapters(articleId)
DetectAndUpdateChapters(articleId) ==
    /\ articles' = ChaptersDetected(articles, articleId, Now)
    /\ thrown' = "none"
    /\ UNCHANGED <<clock, nextId, chapterVars, utilVars,
                 selectionVars, folderVars>>

\* initializeReadingPassProgress()
initializeReadingPassProgress == [manual |-> FALSE, explain |-> FALSE, qa |-> FALSE]

\* the articles after initializeReadingPass(articleId)
ReadingPassInitialized(as, articleId) ==
    [i \in 1..Len(as) |->
        IF as[i].id = articleId
        THEN WithField(as[i], "readingPassProgress", initializeReadingPassProgress)
        ELSE as[i]]

\* !article.chapters || article.chapters.length === 0
NoChapters(article) ==
    "chapters" \notin DOMAIN article \/ Len(article.chapters) = 0

\* !article.readingPassProgress
NoReadingPassProgress(article) == "readingPassProgress" \notin DOMAIN article

\* the effect ReaderScreen runs when it is shown for the article articleId
OpenReader(articleId) ==
    /\ \E i \in 1..Len(articles) :
          /\ articles[i].id = articleId
          /\ LET detected == IF NoChapters(articles[i])
                              THEN ChaptersDetected(articles, articleId, Now)
                              ELSE articles
             IN  articles' = IF NoReadingPassProgress(articles[i])
                             THEN ReadingPassInitialized(detected, articleId)
                             ELSE detected
    /\ thrown' = "none"
    /\ UNCHANGED <<clock, nextId, chapterVars, utilVars,
                 selectionVars, folderVars>>

NextReader ==
    \/ Tick
    \/ \E c \in ReaderContents :
          nextId < MaxReaderIds /\ articles = NoArticles /\ AddArticle(c)
    \/ \E a \in ArticleIds : OpenReader(a)
    \/ \E a \in ArticleIds \cup {MissingId} : DetectAndUpdateChapters(a)
    \/ \E a \in ArticleIds : \E sel \in UNION {Selections(c) : c \in ContentsOf(a)} :
          nextId < MaxReaderIds /\ HandleCreateHighlight(a, sel, DefaultHighlightColor)

SpecReader == Init /\ [][NextReader]_vars

-----------------------------------------------------------------------------
(* Chapter navigation: ChapterNavigation and handleChapterChange.           *)

MaxNavIds == 2    \* identifiers generateId hands out in the runs of SpecNav

\* the contents of the articles that are navigated: with one, two and three
\* headings
NavContents ==
    {<<"#", " ", "A", "\n", "b">>,
     <<"#", " ", "A", "\n", "#", " ", "B">>,
     <<"#", " ", "A", "\n", "#", " ", "B", "\n", "#", " ", "C">>}

\* the articles after setCurrentChapter(articleId, chapterIndex)
CurrentChapterSet(as, articleId, chapterIndex) ==
    [i \in 1..Len(as) |->
        IF as[i].id = articleId
        THEN WithField(as[i], "currentChapterIndex", chapterIndex)
        ELSE as[i]]

\* setCurrentChapter(articleId, chapterIndex)
SetCurrentChapter(articleId, chapterIndex) ==
    /\ articles' = CurrentChapterSet(articles, articleId, chapterIndex)
    /\ thrown' = "none"
    /\ UNCHANGED <<clock, nextId, chapterVars, utilVars,
                 selectionVars, folderVars>>

\* article.chapters && article.chapters.length > 1: the navigation is shown
NavigationShown(article) ==
    "chapters" \in DOMAIN article /\ Len(article.chapters) > 1

\* article.currentChapterIndex || 0
CurrentChapterIndex(article) ==
    IF "currentChapterIndex" \in DOMAIN article
    THEN article.currentChapterIndex ELSE 0

hasPrevious(chapters, currentChapterIndex) == currentChapterIndex > 0

hasNextOrLast(chapters, currentChapterIndex) ==
    currentChapterIndex <= Len(chapters) - 1

hasNext(chapters, currentChapterIndex) ==
    currentChapterIndex < Len(chapters) - 1

\* the Previous button of the navigation of the article is pressed
PressPrevious(articleId) ==
    \E i \in 1..Len(articles) :
        /\ articles[i].id = articleId
        /\ NavigationShown(articles[i])
        /\ hasPrevious(articles[i].chapters, CurrentChapterIndex(articles[i]))
        /\ SetCurrentChapter(articleId, CurrentChapterIndex(articles[i]) - 1)

\* the Next button of the navigation of the article is pressed
PressNext(articleId) ==
    \E i \in 1..Len(articles) :
        /\ articles[i].id = articleId
        /\ NavigationShown(articles[i])
        /\ hasNext(articles[i].chapters, CurrentChapterIndex(articles[i]))
        /\ SetCurrentChapter(articleId, CurrentChapterIndex(articles[i]) + 1)

NextNav ==
    \/ Tick
    \/ \E c \in NavContents : nextId < MaxNavIds /\ AddArticle(c)
    \/ \E a \in ArticleIds : OpenReader(a)
    \/ \E a \in ArticleIds : PressPrevious(a)
    \/ \E a \in ArticleIds : PressNext(a)

SpecNav == Init /\ [][NextNav]_vars

-----------------------------------------------------------------------------
(* The library: selection, deletion and import of articles.                 *)

MaxLibraryIds == 3   \* identifiers generateId hands out in the runs of the library
MaxImported == 2     \* largest number of articles in an imported file

\* setCurrentArticle(id)
SetCurrentArticle(id) ==
    /\ currentArticleId' = id
    /\ UNCHANGED <<storeVars, chapterVars, utilVars, folderVars>>

\* deleteArticle(id)
DeleteArticle(id) ==
    /\ articles' = SelectSeq(articles, LAMBDA article : article.id # id)
    /\ currentArticleId' = IF currentArticleId = id THEN NoCurrentArticle
                                                   ELSE currentArticleId
    /\ thrown' = "none"
    /\ UNCHANGED <<clock, nextId, chapterVars, utilVars, folderVars>>

\* bulkDelete(ids)
BulkDelete(ids) ==
    /\ articles' = SelectSeq(articles, LAMBDA a : a.id \notin ids)
    /\ thrown' = "none"
    /\ UNCHANGED <<clock, nextId, chapterVars, utilVars, selectionVars,
                   folderVars>>

\* an identifier written in an imported file that this store never handed out
ForeignId == <<0 - 1, 1>>

\* the articles of an imported file: each with the identifier the file gives
\* it, an identifier of the store (a file exported from it) or a foreign one,
\* or with none
ImportedItems ==
    [content : ArticleContents] \cup
    [content : ArticleContents, id : ArticleIds \cup {ForeignId}]
ImportedData == UNION {[1..n -> ImportedItems] : n \in 1..MaxImported}

\* the identifiers generateId makes for the items of data before position i
\* that bring none
MadeBefore(data, i) == Cardinality({j \in 1..(i - 1) : "id" \notin DOMAIN data[j]})

\* normalizeArticles(data): id: item.id || generateId()
normalizeArticles(data, now, made) ==
    [i \in 1..Len(data) |->
        [content |-> data[i].content,
         id |-> IF "id" \in DOMAIN data[i] THEN data[i].id
                ELSE generateId(now, made + MadeBefore(data, i) + 1),
         savedAt |-> now, updatedAt |-> now, highlights |-> <<>>,
         syncStatus |-> "local"]]

\* importArticles(articles), with the articles importFromJson read
ImportArticles(data) ==
    /\ articles' = normalizeArticles(data, Now, nextId) \o articles
    /\ nextId' = nextId + MadeBefore(data, Len(data) + 1)
    /\ thrown' = "none"
    /\ UNCHANGED <<clock, chapterVars, utilVars, selectionVars, folderVars>>

\* addArticle, importArticles, deleteArticle and bulkDelete in any order
NextImport ==
    \/ \E c \in ArticleContents : nextId < MaxLibraryIds /\ AddArticle(c)
    \/ \E data \in ImportedData :
          /\ nextId + Len(data) <= MaxLibraryIds
          /\ Len(articles) + Len(data) <= MaxLibraryIds
          /\ ImportArticles(data)
    \/ \E a \in ArticleIds : DeleteArticle(a)
    \/ \E ids \in SUBSET ArticleIds : ids # {} /\ BulkDelete(ids)

SpecImport == Init /\ [][NextImport]_vars

\* setCurrentArticle with the id of an article of the store, deleteArticle and
\* bulkDelete in any order, on articles that addArticle made
NextSelection ==
    \/ Tick
    \/ \E c \in ArticleContents : nextId < MaxLibraryIds /\ AddArticle(c)
    \/ \E a \in ArticleIds : SetCurrentArticle(a)
    \/ \E a \in ArticleIds : DeleteArticle(a)
    \/ \E ids \in SUBSET ArticleIds : ids # {} /\ BulkDelete(ids)

SpecSelection == Init /\ [][NextSelection]_vars

-----------------------------------------------------------------------------
(* The folder store: addFolder, updateFolder, deleteFolder, getFolderPath.  *)

MaxFolders == 2     \* identifiers generateId hands out in the runs of SpecFolders

FolderIds == {folders[i].id : i \in 1..Len(folders)}

\* parentId: undefined, and the end of the walk of getFolderPath
NoFolderId == <<>>

\* the parentId of a folder, undefined when it has none
ParentOf(folder) ==
    IF "parentId" \in DOMAIN folder THEN folder.parentId ELSE NoFolderId

\* addFolder(folderData), folderData with or without a parentId
AddFolder(folderData) ==
    /\ folders' = Append(folders,
                         Spread(folderData,
                                [id |-> generateId(Now, nextId + 1),
                                 createdAt |-> Now, updatedAt |-> Now,
                                 articleCount |-> 0,
                                 sortOrder |-> Len(folders)]))
    /\ nextId' = nextId + 1
    /\ UNCHANGED <<articles, clock, thrown, chapterVars, utilVars,
                   selectionVars, walk>>

\* updateFolder(id, updates)
UpdateFolder(id, updates) ==
    /\ folders' = [i \in 1..Len(folders) |->
                      IF folders[i].id = id
                      THEN Spread(Spread(folders[i], updates), [updatedAt |-> Now])
                      ELSE folders[i]]
    /\ UNCHANGED <<storeVars, chapterVars, utilVars, selectionVars, walk>>

\* deleteFolder(id)
DeleteFolder(id) ==
    /\ folders' = SelectSeq(folders, LAMBDA folder : folder.id # id)
    /\ UNCHANGED <<storeVars, chapterVars, utilVars, selectionVars, walk>>

\* the longest path the model keeps: a walk over folders without a cycle is
\* never longer than the number of folders, a longer one keeps its newest
\* entries
MaxPath == MaxFolders + 1
Newest(path) == SubSeq(path, 1, IF Len(path) < MaxPath THEN Len(path) ELSE MaxPath)

\* getFolderPath(id) is called: path = [], currentId = id
CallGetFolderPath(id) ==
    /\ walk = Idle
    /\ walk' = [running |-> TRUE, id |-> id, currentId |-> id, path |-> <<>>,
                turn |-> 0]
    /\ UNCHANGED <<storeVars, chapterVars, utilVars, selectionVars, folders>>

\* one turn of the while loop that finds the folder currentId; on a cycle of
\* parentIds the turns never end (turn is the parity of the turns made)
LoopGetFolderPath ==
    /\ walk.running
    /\ walk.currentId # NoFolderId
    /\ \E i \in 1..Len(folders) :
          /\ folders[i].id = walk.currentId
          /\ \A j \in 1..(i - 1) : folders[j].id # walk.currentId
          /\ walk' = [walk EXCEPT !.path = Newest(<<folders[i]>> \o @),
                                  !.currentId = ParentOf(folders[i]),
                                  !.turn = 1 - @]
    /\ UNCHANGED <<storeVars, chapterVars, utilVars, selectionVars, folders>>

\* the loop ends, currentId being undefined or no folder having it, and the
\* path is returned
ReturnGetFolderPath ==
    /\ walk.running
    /\ walk.currentId = NoFolderId \/ walk.currentId \notin FolderIds
    /\ returned' = [op |-> "getFolderPath", id |-> walk.id, result |-> walk.path]
    /\ walk' = Idle
    /\ UNCHANGED <<storeVars, chapterVars, selectionVars, folders>>

\* the folder operations in any order; none starts while getFolderPath runs
NextFolders ==
    \/ /\ walk = Idle
       /\ nextId < MaxFolders
       /\ \E folderData \in {[name |-> "f"]} \cup
                               {[name |-> "f", parentId |-> f] : f \in FolderIds} :
             AddFolder(folderData)
    \/ /\ walk = Idle
       /\ \E id \in FolderIds :
             \E updates \in {[name |-> "g"]} \cup
                            {[parentId |-> f] : f \in FolderIds} :
                UpdateFolder(id, updates)
    \/ walk = Idle /\ \E id \in FolderIds : DeleteFolder(id)
    \/ \E id \in FolderIds \cup {MissingId} : CallGetFolderPath(id)
    \/ LoopGetFolderPath
    \/ ReturnGetFolderPath

\* a call of getFolderPath that can take a step takes it
SpecFolders ==
    /\ Init
    /\ [][NextFolders]_vars
    /\ WF_vars(LoopGetFolderPath)
    /\ WF_vars(ReturnGetFolderPath)

-----------------------------------------------------------------------------
(* The content extractor: extractChapterContent is called with a content   *)
(* and a chapter whose offsets lie inside the content or one step outside.  *)

MaxExtractChars == 3    \* length of a content built from ExtractAlphabet

ExtractAlphabet == {" ", "\n", "a", "b"}
ExtractContents == UNION {[1..n -> ExtractAlphabet] : n \in 0..MaxExtractChars}

\* extractChapterContent(content, chapter)
extractChapterContentUntrimmed(c, chapter) ==
    substring(c, chapter.startOffset, chapter.endOffset)

extractChapterContent(c, chapter) ==
    trim(substring(c, chapter.startOffset, chapter.endOffset))

InitExtract ==
    /\ content \in ExtractContents
    /\ calls = <<>>
    /\ articles = NoArticles
    /\ clock = 0
    /\ nextId = 0
    /\ thrown = "none"
    /\ returned = NoResult
    /\ currentArticleId = NoCurrentArticle
    /\ folders = NoFolders
    /\ walk = Idle

\* extractChapterContent(content, {startOffset, endOffset})
ExtractChapterContent(startOffset, endOffset) ==
    /\ LET chapter == [startOffset |-> startOffset, endOffset |-> endOffset]
       IN  returned' = [op |-> "extractChapterContent", chapter |-> chapter,
                        result |-> extractChapterContent(content, chapter)]
    /\ UNCHANGED <<storeVars, chapterVars,
                 selectionVars, folderVars>>

NextExtract ==
    \E startOffset, endOffset \in (0 - 1)..(Len(content) + 1) :
        ExtractChapterContent(startOffset, endOffset)

SpecExtract == InitExtract /\ [][NextExtract]_vars

-----------------------------------------------------------------------------
(* The reading passes: the helpers of chapterUtils, the store action behind *)
(* toggleReadingPass and the ReadingPassIndicator of the reader screen.     *)

MaxPassArticles == 2    \* articles in the runs of SpecPasses

\* const passes = ['manual', 'explain', 'qa']
Passes == <<"manual", "explain", "qa">>
PassNames == {Passes[i] : i \in 1..Len(Passes)}
Null == "null"

\* getNextReadingPass(progress)
getNextReadingPassFirstSet(progress) ==
    IF progress.manual THEN "manual"
    ELSE IF progress.explain THEN "explain"
    ELSE IF progress.qa THEN "qa"
    ELSE Null

getNextReadingPass(progress) ==
    IF ~progress.manual THEN "manual"
    ELSE IF ~progress.explain THEN "explain"
    ELSE IF ~progress.qa THEN "qa"
    ELSE Null

\* Math.round(n / d) for n >= 0 and d > 0: halves are rounded up
MathFloor(n, d) == n \div d

MathRound(n, d) == (2 * n + d) \div (2 * d)

\* [progress.manual, progress.explain, progress.qa].filter(Boolean).length
Completed(progress) ==
    Cardinality({i \in 1..Len(Passes) : progress[Passes[i]]})

\* getReadingPassCompletionPercentage(progress)
getReadingPassCompletionPercentage(progress) ==
    MathRound(Completed(progress) * 100, 3)

\* the articles after toggleReadingPass(articleId, pass): the flag of the pass
\* is flipped
ReadingPassToggled(as, articleId, pass) ==
    [i \in 1..Len(as) |->
        IF as[i].id = articleId /\ ~NoReadingPassProgress(as[i])
        THEN [as[i] EXCEPT !.readingPassProgress[pass] = ~@]
        ELSE as[i]]

\* toggleReadingPass(articleId, pass)
ToggleReadingPass(articleId, pass) ==
    /\ articles' = ReadingPassToggled(articles, articleId, pass)
    /\ thrown' = "none"
    /\ UNCHANGED <<clock, nextId, chapterVars, utilVars,
                 selectionVars, folderVars>>

\* a press on the row of a pass in the ReadingPassIndicator, which ReaderScreen
\* renders when the article has a readingPassProgress
PressPassManual(articleId, pass) ==
    /\ \E i \in 1..Len(articles) :
          articles[i].id = articleId /\ ~NoReadingPassProgress(articles[i])
    /\ ToggleReadingPass(articleId, "manual")

PressPassInOrder(articleId, pass) ==
    /\ \E i \in 1..Len(articles) :
          /\ articles[i].id = articleId
          /\ ~NoReadingPassProgress(articles[i])
          /\ pass = getNextReadingPass(articles[i].readingPassProgress)
    /\ ToggleReadingPass(articleId, pass)

PressPass(articleId, pass) ==
    /\ \E i \in 1..Len(articles) :
          articles[i].id = articleId /\ ~NoReadingPassProgress(articles[i])
    /\ ToggleReadingPass(articleId, pass)

\* the ReadingPassIndicator of the article is rendered
RenderIndicator(articleId) ==
    /\ \E i \in 1..Len(articles) :
          /\ articles[i].id = articleId
          /\ ~NoReadingPassProgress(articles[i])
          /\ returned' =
                [op |-> "getReadingPassCompletionPercentage",
                 progress |-> articles[i].readingPassProgress,
                 result |-> getReadingPassCompletionPercentage(
                                articles[i].readingPassProgress)]
    /\ UNCHANGED <<storeVars, chapterVars,
                 selectionVars, folderVars>>

\* getNextReadingPass is asked for the next pass of the article
AskNextReadingPass(articleId) ==
    /\ \E i \in 1..Len(articles) :
          /\ articles[i].id = articleId
          /\ ~NoReadingPassProgress(articles[i])
          /\ returned' =
                [op |-> "getNextReadingPass",
                 progress |-> articles[i].readingPassProgress,
                 result |-> getNextReadingPass(articles[i].readingPassProgress)]
    /\ UNCHANGED <<storeVars, chapterVars,
                 selectionVars, folderVars>>

NextPasses ==
    \/ \E c \in ArticleContents : Len(articles) < MaxPassArticles /\ AddArticle(c)
    \/ \E a \in ArticleIds : OpenReader(a)
    \/ \E a \in ArticleIds, pass \in PassNames : PressPass(a, pass)
    \/ \E a \in ArticleIds : RenderIndicator(a)
    \/ \E a \in ArticleIds : AskNextReadingPass(a)

SpecPasses == Init /\ [][NextPasses]_vars

-----------------------------------------------------------------------------
(* Copy templates: generateCopyTemplate(article, chapter, passType).        *)

\* largest length of the article content of a generated template
MaxTemplateChars == 2

TemplateContents == UNION {[1..n -> ExtractAlphabet] : n \in 0..MaxTemplateChars}
TemplateTitles == {<<"F">>, <<"a", " ", "b">>}

\* chapter = null
NullChapter == [null |-> TRUE]

\* the chapters a template is asked for: null, or a chapter of the content
TemplateChapters(c) ==
    {NullChapter} \cup
    {[title |-> <<"C">>, startOffset |-> s, endOffset |-> t] :
        s \in 0..Len(c), t \in 0..Len(c)}

\* 'manual': `# ${chapterTitle}\n\n${chapterContent}`
ManualHeading == <<"#", " ">>
BlankLine == <<"\n", "\n">>

\* 'explain': the text before the article title, and the texts around the
\* chapter content
ExplainOpening ==
    <<"I", "'", "m", " ", "r", "e", "a", "d", "i", "n", "g", " ", "\"">>
ExplainPreamble ==
    <<".", " ", "P", "l", "e", "a", "s", "e", " ", "h", "e", "l", "p", " ",
      "m", "e", " ", "u", "n", "d", "e", "r", "s", "t", "a", "n", "d", " ",
      "t", "h", "i", "s", " ", "b", "e", "t", "t", "e", "r", " ", "b", "y",
      ":", "\n", "\n", "1", ".", " ", "E", "x", "p", "l", "a", "i", "n",
      "i", "n", "g", " ", "t", "h", "e", " ", "m", "a", "i", "n", " ", "c",
      "o", "n", "c", "e", "p", "t", "s", "\n", "2", ".", " ", "S", "u",
      "m", "m", "a", "r", "i", "z", "i", "n", "g", " ", "t", "h", "e", " ",
      "k", "e", "y", " ", "p", "o", "i", "n", "t", "s", "\n", "3", ".",
      " ", "C", "l", "a", "r", "i", "f", "y", "i", "n", "g", " ", "a", "n",
      "y", " ", "c", "o", "m", "p", "l", "e", "x", " ", "i", "d", "e", "a",
      "s", "\n", "\n", "-", "-", "-", "\n", "\n">>
ExplainPostamble ==
    <<"\n", "\n", "-", "-", "-", "\n", "\n", "P", "l", "e", "a", "s", "e",
      " ", "p", "r", "o", "v", "i", "d", "e", " ", "a", " ", "c", "l", "e",
      "a", "r", " ", "e", "x", "p", "l", "a", "n", "a", "t", "i", "o", "n",
      " ", "a", "n", "d", " ", "s", "u", "m", "m", "a", "r", "y", ".">>

\* 'qa': the text before the article title, and the texts around the chapter
\* content
QaOpening ==
    <<"I", "'", "v", "e", " ", "r", "e", "a", "d", " ", "\"">>
QaPreamble ==
    <<" ", "a", "n", "d", " ", "w", "o", "u", "l", "d", " ", "l", "i", "k",
      "e", " ", "t", "o", " ", "d", "e", "e", "p", "e", "n", " ", "m", "y",
      " ", "u", "n", "d", "e", "r", "s", "t", "a", "n", "d", "i", "n", "g",
      " ", "t", "h", "r", "o", "u", "g", "h", " ", "q", "u", "e", "s", "t",
      "i", "o", "n", "s", " ", "a", "n", "d", " ", "a", "n", "s", "w", "e",
      "r", "s", ".", "\n", "\n", "C", "o", "n", "t", "e", "n", "t", ":",
      "\n", "\n", "-", "-", "-", "\n", "\n">>
QaPostamble ==
    <<"\n", "\n", "-", "-", "-", "\n", "\n", "P", "l", "e", "a", "s", "e",
      ":", "\n", "1", ".", " ", "G", "e", "n", "e", "r", "a", "t", "e",
      " ", "t", "h", "o", "u", "g", "h", "t", "f", "u", "l", " ", "q", "u",
      "e", "s", "t", "i", "o", "n", "s", " ", "a", "b", "o", "u", "t", " ",
      "t", "h", "i", "s", " ", "c", "o", "n", "t", "e", "n", "t", "\n",
      "2", ".", " ", "H", "e", "l", "p", " ", "m", "e", " ", "e", "x", "p",
      "l", "o", "r", "e", " ", "t", "h", "e", " ", "i", "m", "p", "l", "i",
      "c", "a", "t", "i", "o", "n", "s", " ", "a", "n", "d", " ", "c", "o",
      "n", "n", "e", "c", "t", "i", "o", "n", "s", "\n", "3", ".", " ",
      "T", "e", "s", "t", " ", "m", "y", " ", "u", "n", "d", "e", "r", "s",
      "t", "a", "n", "d", "i", "n", "g", " ", "o", "f", " ", "k", "e", "y",
      " ", "c", "o", "n", "c", "e", "p", "t", "s", "\n", "\n", "W", "h",
      "a", "t", " ", "q", "u", "e", "s", "t", "i", "o", "n", "s", " ", "s",
      "h", "o", "u", "l", "d", " ", "I", " ", "b", "e", " ", "a", "s", "k",
      "i", "n", "g", " ", "a", "b", "o", "u", "t", " ", "t", "h", "i", "s",
      " ", "m", "a", "t", "e", "r", "i", "a", "l", "?">>

\* `"${chapter ? ` - ${chapterTitle}` : ''}`
ClosingQuote == <<"\"">>
ChapterSuffix(chapter, chapterTitle) ==
    IF chapter = NullChapter THEN <<>> ELSE <<" ", "-", " ">> \o chapterTitle

generateCopyTemplateBare(article, chapter, passType) ==
    LET chapterContent == IF chapter = NullChapter THEN article.content
                          ELSE extractChapterContent(article.content, chapter)
        chapterTitle == IF chapter = NullChapter THEN article.title
                        ELSE chapter.title
    IN  CASE passType = "manual" -> chapterContent
          [] passType = "explain" ->
                ExplainOpening \o article.title \o ClosingQuote
                \o ChapterSuffix(chapter, chapterTitle)
                \o ExplainPreamble \o chapterContent \o ExplainPostamble
          [] passType = "qa" ->
                QaOpening \o chapterTitle \o ClosingQuote
                \o ChapterSuffix(chapter, chapterTitle)
                \o QaPreamble \o QaPostamble
          [] OTHER -> chapterContent

generateCopyTemplate(article, chapter, passType) ==
    LET chapterContent == IF chapter = NullChapter THEN article.content
                          ELSE extractChapterContent(article.content, chapter)
        chapterTitle == IF chapter = NullChapter THEN article.title
                        ELSE chapter.title
    IN  CASE passType = "manual" ->
                ManualHeading \o chapterTitle \o BlankLine \o chapterContent
          [] passType = "explain" ->
                ExplainOpening \o article.title \o ClosingQuote
                \o ChapterSuffix(chapter, chapterTitle)
                \o ExplainPreamble \o chapterContent \o ExplainPostamble
          [] passType = "qa" ->
                QaOpening \o article.title \o ClosingQuote
                \o ChapterSuffix(chapter, chapterTitle)
                \o QaPreamble \o chapterContent \o QaPostamble
          [] OTHER -> chapterContent

InitTemplate ==
    /\ content \in TemplateContents
    /\ calls = <<>>
    /\ articles = NoArticles
    /\ clock = 0
    /\ nextId = 0
    /\ thrown = "none"
    /\ returned = NoResult
    /\ currentArticleId = NoCurrentArticle
    /\ folders = NoFolders
    /\ walk = Idle

\* generateCopyTemplate is called for an article with the content
GenerateCopyTemplate(title, chapter, passType) ==
    /\ LET article == [title |-> title, content |-> content]
       IN  returned' = [op |-> "generateCopyTemplate", article |-> article,
                        chapter |-> chapter, passType |-> passType,
                        result |-> generateCopyTemplate(article, chapter,
                                                        passType)]
    /\ UNCHANGED <<storeVars, chapterVars,
                 selectionVars, folderVars>>

NextTemplate ==
    \E title \in TemplateTitles, chapter \in TemplateChapters(content),
       passType \in PassNames :
        GenerateCopyTemplate(title, chapter, passType)

SpecTemplate == InitTemplate /\ [][NextTemplate]_vars

-----------------------------------------------------------------------------
(* Properties of detectChapters.                                           *)

Lines == split(content)

\* the lines of content that match one of the four heading patterns
HeadingLines == {i \in 1..Len(Lines) : Heading(trim(Lines[i])).pattern # 0}

\* the offset in content of the first character of line i
RECURSIVE LineOffset(_)
LineOffset(i) == IF i <= 1 THEN 0 ELSE LineOffset(i - 1) + Len(Lines[i - 1]) + 1

StripIds(chapters) ==
    [i \in 1..Len(chapters) |->
        [title |-> chapters[i].title, startOffset |-> chapters[i].startOffset,
         endOffset |-> chapters[i].endOffset, level |-> chapters[i].level]]

\* C1: in every sequence detectChapters returns, each chapter's endOffset is
\* the next chapter's startOffset.
C1_Contiguous ==
    \A k \in 1..Len(calls) : \A i \in 1..(Len(calls[k]) - 1) :
        calls[k][i].endOffset = calls[k][i + 1].startOffset

\* a content with three headings has been split into three chapters
C1_Witness == Len(calls) >= 1 /\ Len(calls[1]) >= 3

\* C2: the first chapter detectChapters returns starts at offset 0, whatever
\* the first line of content is.
C2_FirstStartsAtZero ==
    \A k \in 1..Len(calls) : calls[k][1].startOffset = 0

\* C3: the last chapter detectChapters returns ends at length(content), in
\* the fallback case and when headings were found.
C3_LastEndsAtLength ==
    \A k \in 1..Len(calls) : calls[k][Len(calls[k])].endOffset = Len(content)

\* headings were found, and the last chapter is not the first
C3_Witness ==
    /\ Len(calls) >= 1
    /\ HeadingLines # {}
    /\ Len(calls[1]) >= 2
    /\ Len(content) > calls[1][Len(calls[1])].startOffset

\* C4, as claimed: for a content of any length, no chapter detectChapters
\* returns is empty (startOffset < endOffset).
C4_NoEmptyChapter ==
    \A k \in 1..Len(calls) : \A i \in 1..Len(calls[k]) :
        calls[k][i].startOffset < calls[k][i].endOffset

\* C4, amended: for a non-empty content, no chapter detectChapters returns is
\* empty (startOffset < endOffset), a heading line directly followed by another
\* heading line included.
C4_NoEmptyChapterOfNonEmptyContent ==
    content # <<>> =>
        \A k \in 1..Len(calls) : \A i \in 1..Len(calls[k]) :
            calls[k][i].startOffset < calls[k][i].endOffset

\* the first two lines are headings: the first chapter is its heading line only
C4_Witness ==
    /\ Len(calls) >= 1
    /\ {1, 2} \subseteq HeadingLines
    /\ Len(calls[1]) >= 2
    /\ calls[1][1].endOffset - calls[1][1].startOffset = Len(Lines[1]) + 1

\* C5: detectChapters returns the single chapter (0, length(content),
\* 'Full Content', level 1) when no line matches a heading pattern, and
\* otherwise exactly one chapter per matching line, starting at that line.
C5_FallbackOrOnePerHeadingLine ==
    \A k \in 1..Len(calls) :
        IF HeadingLines = {}
        THEN StripIds(calls[k]) =
                 <<[title |-> FullContent, startOffset |-> 0,
                    endOffset |-> Len(content), level |-> 1]>>
        ELSE /\ Len(calls[k]) = Cardinality(HeadingLines)
             /\ {calls[k][i].startOffset : i \in 1..Len(calls[k])}
                    = {LineOffset(i) : i \in HeadingLines}

\* a chapter-pattern line without a title fragment, next to a line that is no
\* heading, has been scanned
C5_Witness ==
    /\ Len(calls) >= 1
    /\ \E i \in HeadingLines :
          LET m == MatchChapterWord(trim(Lines[i]))
          IN  m.matched /\ trim(m.m3) = <<>>
    /\ \E i \in 1..Len(Lines) : i \notin HeadingLines /\ Lines[i] # <<>>

HashCount(t) ==
    CHOOSE n \in 0..Len(t) :
        /\ \A i \in 1..n : t[i] = "#"
        /\ n < Len(t) => t[n + 1] # "#"

\* the chapters of a call that start at the offset of line i
ChaptersAtLine(chapters, i) ==
    {k \in 1..Len(chapters) : chapters[k].startOffset = LineOffset(i)}

\* C21: for "# Intro\nhello\n## Details\nworld\n" detectChapters returns
\* Intro (level 1) from 0 to 14 and Details (level 2) from 14 to the length of
\* the content, 31; a line of k '#' characters, whitespace and a title opens
\* a chapter of level k, and every chapter starts at the sum of
\* line.length + 1 over the lines before its heading.
C21_MarkdownScenario ==
    \A k \in 1..Len(calls) :
        /\ content = ScenarioMarkdown
           => StripIds(calls[k]) =
                 <<[title |-> <<"I","n","t","r","o">>, startOffset |-> 0,
                    endOffset |-> 14, level |-> 1],
                   [title |-> <<"D","e","t","a","i","l","s">>, startOffset |-> 14,
                    endOffset |-> 31, level |-> 2]>>
        /\ \A i \in 1..Len(Lines) :
              LET t == trim(Lines[i])
                  n == HashCount(t)
              IN  (n \in 1..6 /\ Len(t) > n /\ t[n + 1] \in Whitespace
                       /\ AllDot(t, n + 2))
                  => /\ ChaptersAtLine(calls[k], i) # {}
                     /\ \A c \in ChaptersAtLine(calls[k], i) : calls[k][c].level = n
        /\ \A c \in 1..Len(calls[k]) :
              \E i \in 1..Len(Lines) : calls[k][c].startOffset = LineOffset(i)

\* C21 as stated: the same, with Details ending at offset 30.
C21_MarkdownScenarioEndsAt30 ==
    \A k \in 1..Len(calls) :
        /\ content = ScenarioMarkdown
           => StripIds(calls[k]) =
                 <<[title |-> <<"I","n","t","r","o">>, startOffset |-> 0,
                    endOffset |-> 14, level |-> 1],
                   [title |-> <<"D","e","t","a","i","l","s">>, startOffset |-> 14,
                    endOffset |-> 30, level |-> 2]>>
        /\ \A i \in 1..Len(Lines) :
              LET t == trim(Lines[i])
                  n == HashCount(t)
              IN  (n \in 1..6 /\ Len(t) > n /\ t[n + 1] \in Whitespace
                       /\ AllDot(t, n + 2))
                  => /\ ChaptersAtLine(calls[k], i) # {}
                     /\ \A c \in ChaptersAtLine(calls[k], i) : calls[k][c].level = n
        /\ \A c \in 1..Len(calls[k]) :
              \E i \in 1..Len(Lines) : calls[k][c].startOffset = LineOffset(i)

\* detectChapters has run on the markdown example
C21_Witness == content = ScenarioMarkdown /\ Len(calls) >= 1

\* the ways to read the line t as <word><whitespace><number><separator><title>:
\* p is the last position of the word, q the first and r the last of the number
ChapterWordForms(t) ==
    LET words == {p \in {3, 7} :
                     /\ p <= Len(t)
                     /\ LowerSeq(SubSeq(t, 1, p)) \in
                           {<<"c","h","a","p","t","e","r">>, <<"c","h",".">>}}
        starts(p) == {q \in (p + 2)..Len(t) :
                         /\ \A j \in (p + 1)..(q - 1) : t[j] \in Whitespace
                         /\ t[q] \notin Whitespace}
        ends(q) == {r \in q..(Len(t) - 1) :
                       LET number == SubSeq(t, q, r)
                       IN  /\ \/ \A j \in 1..Len(number) : number[j] \in NumeralChars
                              \/ LowerSeq(number) \in
                                    {NumberWords[i] : i \in 1..Len(NumberWords)}
                           /\ t[r + 1] \in Separators
                           /\ AllDot(t, r + 2)}
    IN  UNION {UNION {{<<p, q, r>> : r \in ends(q)} : q \in starts(p)} : p \in words}

\* C22: a line 'Chapter <number><separator><title>' opens one chapter of
\* level 1 whose title is the title fragment without the whitespace around
\* it, or '<word> <number>' when nothing is left of the fragment; the
\* chapter-word example gives the chapters Beginnings and Middle of level 1.
C22_ChapterWordLines ==
    \A k \in 1..Len(calls) :
        /\ content = ScenarioChapterWord
           => [i \in 1..Len(calls[k]) |->
                  [title |-> calls[k][i].title, level |-> calls[k][i].level]] =
                 <<[title |-> <<"B","e","g","i","n","n","i","n","g","s">>,
                    level |-> 1],
                   [title |-> <<"M","i","d","d","l","e">>, level |-> 1]>>
        /\ \A i \in 1..Len(Lines) :
              LET t == trim(Lines[i])
              IN  \A f \in ChapterWordForms(t) :
                     LET fragment == trim(SubSeq(t, f[3] + 2, Len(t)))
                         title == IF fragment # <<>> THEN fragment
                                  ELSE SubSeq(t, 1, f[1]) \o <<" ">>
                                           \o SubSeq(t, f[2], f[3])
                     IN  /\ Cardinality(ChaptersAtLine(calls[k], i)) = 1
                         /\ \A c \in ChaptersAtLine(calls[k], i) :
                               /\ calls[k][c].level = 1
                               /\ calls[k][c].title = title

\* detectChapters has run on the chapter-word example
C22_Witness == content = ScenarioChapterWord /\ Len(calls) >= 1

\* C24: a line gives at most one chapter, and its title and level are those
\* of the first pattern it matches in the order markdown heading, chapter
\* word, numbered section, all-caps; a line that is a chapter-word line and an
\* all-caps line gives the chapter-word title.
C24_FirstPatternWins ==
    \A k \in 1..Len(calls) : \A i \in 1..Len(Lines) :
        LET t == trim(Lines[i])
            md == MatchMarkdown(t)
            cw == MatchChapterWord(t)
            nb == MatchNumbered(t)
            ac == MatchAllCaps(t)
            at == ChaptersAtLine(calls[k], i)
            is(title, level) ==
                /\ at # {}
                /\ \A c \in at : calls[k][c].title = title /\ calls[k][c].level = level
        IN  /\ Cardinality(at) <= 1
            /\ IF md.matched THEN is(trim(md.m2), Len(md.m1))
               ELSE IF cw.matched
               THEN is(IF trim(cw.m3) # <<>> THEN trim(cw.m3)
                       ELSE cw.m1 \o <<" ">> \o cw.m2, 1)
               ELSE IF nb.matched
               THEN is(trim(nb.m2), Cardinality({j \in 1..Len(nb.m1) : nb.m1[j] = "."}) + 1)
               ELSE IF ac.matched THEN is(t, 1)
               ELSE \A c \in at : calls[k][c].title = FullContent

\* a line that matches the chapter-word pattern and the all-caps pattern has
\* been scanned
C24_Witness ==
    /\ Len(calls) >= 1
    /\ \E i \in 1..Len(Lines) :
          /\ MatchChapterWord(trim(Lines[i])).matched
          /\ MatchAllCaps(trim(Lines[i])).matched

\* the number of integer groups in the number prefix of a numbered heading:
\* the digits that begin the prefix or follow a dot
IntegerGroups(prefix) ==
    Cardinality({j \in 1..Len(prefix) :
                    prefix[j] \in Digits /\ (j = 1 \/ prefix[j - 1] = ".")})

\* C25: the chapter of a numbered-section line has as level the number of
\* dot-separated integer groups of its number prefix.
C25_LevelIsGroupCount ==
    \A k \in 1..Len(calls) : \A i \in 1..Len(Lines) :
        LET nb == MatchNumbered(trim(Lines[i]))
        IN  nb.matched
            => \A c \in ChaptersAtLine(calls[k], i) :
                  calls[k][c].level = IntegerGroups(nb.m1)

\* C26: for the chapters of detectChapters(content) and a position p with
\* 0 <= p < length(content), getCurrentChapter returns the index of the
\* chapter with startOffset <= p < endOffset; it returns 0 for no chapters, and
\* an index of the list otherwise.
C26_CurrentChapterHoldsPosition ==
    returned.op = "getCurrentChapter"
    => LET chapters == returned.chapters
           p == returned.position
           r == returned.result
       IN  IF chapters = <<>> THEN r = 0
           ELSE /\ r \in 0..(Len(chapters) - 1)
                /\ p < Len(content)
                   => /\ chapters[r + 1].startOffset <= p
                      /\ p < chapters[r + 1].endOffset

\* s holds sub as a run of consecutive characters
Contains(s, sub) ==
    \E i \in 0..(Len(s) - Len(sub)) : SubSeq(s, i + 1, i + Len(sub)) = sub

\* the sentence of the 'qa' template that asks for questions
QuestionsPhrase ==
    <<"G", "e", "n", "e", "r", "a", "t", "e", " ", "t", "h", "o", "u", "g",
      "h", "t", "f", "u", "l", " ", "q", "u", "e", "s", "t", "i", "o", "n",
      "s", " ", "a", "b", "o", "u", "t", " ", "t", "h", "i", "s", " ", "c",
      "o", "n", "t", "e", "n", "t">>

\* C23: with chapter = null, generateCopyTemplate(article, null, 'manual') is
\* exactly "# " + article.title + two newlines + article.content, and
\* generateCopyTemplate(article, null, 'qa') contains the article title, the
\* content and the fixed phrase that asks to generate questions; the result
\* is a function of (article, chapter, passType) alone.
C23_TemplateOfNullChapter ==
    (returned.op = "generateCopyTemplate" /\ returned.chapter = NullChapter)
    => /\ returned.passType = "manual"
          => returned.result = <<"#", " ">> \o returned.article.title
                               \o <<"\n", "\n">> \o returned.article.content
       /\ returned.passType = "qa"
          => /\ Contains(returned.result, returned.article.title)
             /\ Contains(returned.result, returned.article.content)
             /\ Contains(returned.result, QuestionsPhrase)

C23_Witness ==
    /\ returned.op = "generateCopyTemplate"
    /\ returned.chapter = NullChapter
    /\ returned.passType = "qa"
    /\ returned.article.title = <<"F">>
    /\ returned.article.content = <<"a", "b">>

\* C27: for an article with n > 1 chapters, the Previous and Next buttons of
\* ChapterNavigation only request chapter indices in 0..n-1, whatever the
\* sequence of presses: the current chapter index is never negative and never
\* past the last chapter.
C27_ChapterIndexInRange ==
    \A i \in 1..Len(articles) :
        "currentChapterIndex" \in DOMAIN articles[i]
        => /\ NavigationShown(articles[i])
           /\ articles[i].currentChapterIndex \in
                 0..(Len(articles[i].chapters) - 1)

C27_Witness ==
    \E i, j \in 1..Len(articles) :
        /\ i # j
        /\ NavigationShown(articles[i])
        /\ Len(articles[i].chapters) = 3
        /\ CurrentChapterIndex(articles[i]) = 2
        /\ "currentChapterIndex" \in DOMAIN articles[j]
        /\ articles[j].currentChapterIndex = 0

\* C28: after any sequence of addArticle, importArticles, deleteArticle and
\* bulkDelete the articles of the store have pairwise distinct ids, so that an
\* operation addressed to one articleId changes exactly one article.
C28_DistinctArticleIds ==
    \A i, j \in 1..Len(articles) : articles[i].id = articles[j].id => i = j

\* C29: after any sequence of setCurrentArticle (with the id of an article of
\* the store), deleteArticle and bulkDelete, currentArticleId is null or the id
\* of an article that is still in the store.
C29_CurrentArticleExists ==
    currentArticleId = NoCurrentArticle \/ currentArticleId \in ArticleIds

\* C30: in every state of the folder store that addFolder, updateFolder (changes
\* of parentId included) and deleteFolder reach, every call of getFolderPath
\* terminates: a running call returns in the end.
C30_GetFolderPathReturns == walk.running ~> ~walk.running

-----------------------------------------------------------------------------
(* Properties of the highlight operations.                                 *)

\* 0 <= startOffset < endOffset <= length(content)
ValidRange(startOffset, endOffset, articleContent) ==
    0 <= startOffset /\ startOffset < endOffset /\ endOffset <= Len(articleContent)

\* C7: addHighlight with a range that is not 0 <= startOffset < endOffset <=
\* length(content) raises InvalidRangeError and leaves the article's highlights
\* as they were.
C7_InvalidRangeRejected ==
    [][\A a \in ArticleIds, t \in Texts, r \in RangeArgs :
          (/\ AddHighlight(a, t, DefaultHighlightColor, r[1], r[2])
           /\ \E c \in ContentsOf(a) : ~ValidRange(r[1], r[2], c))
          => (/\ thrown' = "InvalidRangeError"
              /\ HighlightsOf(articles', a) = HighlightsOf(articles, a))]_vars

\* the fields of a highlight that are fixed at creation
Anchor(h) ==
    [id |-> h.id, articleId |-> h.articleId, text |-> h.text,
     startOffset |-> h.startOffset, endOffset |-> h.endOffset]

\* C8: updateHighlight, updateHighlightNote and updateHighlightColor leave id,
\* articleId, text, startOffset and endOffset of every highlight as they were.
C8_UpdateKeepsAnchor ==
    [][\A p \in HighlightCallArgs,
          u \in UpdateArgs \cup {[note |-> n] : n \in NoteArgs}
                   \cup {[color |-> c] : c \in ColorArgs} :
          UpdateHighlight(p[1], p[2], u)
          => \A i \in 1..Len(articles) : \A j \in 1..Len(articles[i].highlights) :
                Anchor(articles'[i].highlights[j]) = Anchor(articles[i].highlights[j])]_vars

\* C9: deleteHighlight with a highlightId the article does not hold leaves the
\* store as it was or reports NotFoundError; so a second deleteHighlight of the
\* same id changes nothing.
C9_DeleteAbsentIsNoOp ==
    [][\A p \in HighlightCallArgs :
          (/\ DeleteHighlight(p[1], p[2])
           /\ \A hs \in HighlightsOf(articles, p[1]) :
                 \A j \in 1..Len(hs) : hs[j].id # p[2])
          => (articles' = articles \/ thrown' = "NotFoundError")]_vars

\* C11: every stored highlight has text = content.substring(startOffset,
\* endOffset) of its article, also when the reader screen created it from a
\* selection.
C11_TextIsSubstring ==
    \A i \in 1..Len(articles) : \A j \in 1..Len(articles[i].highlights) :
        LET h == articles[i].highlights[j]
        IN  h.text = substring(articles[i].content, h.startOffset, h.endOffset)

\* the identifiers of the highlights of the article articleId in the store as
IdsOf(as, articleId) ==
    UNION {{hs[j].id : j \in 1..Len(hs)} : hs \in HighlightsOf(as, articleId)}

\* C12: highlight mutations on one article, issued in any interleaving, are
\* each applied to the latest state and none is lost: addHighlight appends its
\* highlight to the sequence as it is at that moment, updateHighlightNote
\* leaves its note on the highlight, and every highlight of the article is
\* after a step as it was before it, unless the step is the deleteHighlight
\* that removes it or the updateHighlight that rewrites it.
C12_NoLostMutation ==
    [][/\ \A a \in ArticleIds, t \in Texts :
             AddHighlight(a, t, DefaultHighlightColor, 0, 1)
             => \A hs \in HighlightsOf(articles, a) :
                   \A hs2 \in HighlightsOf(articles', a) :
                      /\ Len(hs2) = Len(hs) + 1
                      /\ SubSeq(hs2, 1, Len(hs)) = hs
                      /\ hs2[Len(hs2)].id = generateId(Now, nextId + 1)
       /\ \A p \in HighlightCallArgs, n \in NoteArgs :
             UpdateHighlightNote(p[1], p[2], n)
             => \A hs \in HighlightsOf(articles, p[1]) :
                   \A hs2 \in HighlightsOf(articles', p[1]) :
                      /\ Len(hs2) = Len(hs)
                      /\ \A j \in 1..Len(hs) : hs[j].id = p[2] => hs2[j].note = n
       /\ \A a \in ArticleIds : \A hs \in HighlightsOf(articles, a) :
             \A j \in 1..Len(hs) :
                \/ \E hs2 \in HighlightsOf(articles', a) :
                      \E k \in 1..Len(hs2) : hs2[k] = hs[j]
                \/ /\ DeleteHighlight(a, hs[j].id)
                   /\ hs[j].id \notin IdsOf(articles', a)
                \/ \E u \in UpdateArgs \cup {[note |-> n] : n \in NoteArgs} :
                      /\ UpdateHighlight(a, hs[j].id, u)
                      /\ \E hs2 \in HighlightsOf(articles', a) :
                            hs2[j] = UpdatedHighlight(hs[j], u, Now)]_vars

\* a highlight received a note, and another one was added after that
C12_Witness ==
    \E i \in 1..Len(articles) :
        LET hs == articles[i].highlights
        IN  /\ Len(hs) >= 2
            /\ "note" \in DOMAIN hs[1]
            /\ hs[2].createdAt > hs[1].updatedAt

\* C13: addHighlight, updateHighlight and deleteHighlight addressed to one
\* article leave every other article of the store as it was.
C13_OtherArticlesUnchanged ==
    [][\A a \in ArticleIds \cup {MissingId} :
          (\/ \E t \in Texts : AddHighlight(a, t, DefaultHighlightColor, 0, 1)
           \/ \E h \in HighlightIds \cup {MissingId} :
                 \/ DeleteHighlight(a, h)
                 \/ \E n \in NoteArgs : UpdateHighlightNote(a, h, n))
          => /\ Len(articles') = Len(articles)
             /\ \A i \in 1..Len(articles) :
                   articles[i].id # a => articles'[i] = articles[i]]_vars

\* an operation was addressed to an article without highlights while another
\* article holds a highlight nobody touched since its creation
C13_Witness ==
    \E i, k \in 1..Len(articles) :
        /\ articles[i].id # articles[k].id
        /\ articles[i].highlights = <<>>
        /\ articles[i].syncStatus = "pending"
        /\ Len(articles[k].highlights) = 1
        /\ articles[k].highlights[1].syncStatus = "local"

\* C14: computing the chapters of an article again, by the effect of the
\* reader screen or by detectAndUpdateChapters, leaves the highlights of every
\* article as they were.
C14_ChaptersKeepHighlights ==
    [][\A a \in ArticleIds :
          (OpenReader(a) \/ DetectAndUpdateChapters(a))
          => /\ Len(articles') = Len(articles)
             /\ \A i \in 1..Len(articles) :
                   articles'[i].highlights = articles[i].highlights]_vars

\* the chapters of an article were computed after one of its highlights was
\* created, and the highlight is still there
C14_Witness ==
    \E i \in 1..Len(articles) :
        /\ ~NoChapters(articles[i])
        /\ articles[i].highlights # <<>>
        /\ articles[i].chapters[1].id[1] > articles[i].highlights[1].createdAt

\* C15: getNextReadingPass returns the first of manual, explain, qa whose flag
\* is false, and null exactly when all three flags are true.
C15_NextIsFirstUnset ==
    returned.op = "getNextReadingPass"
    => LET p == returned.progress
           unset == {i \in 1..Len(Passes) : ~p[Passes[i]]}
       IN  /\ unset = {} <=> returned.result = Null
           /\ unset # {} =>
                 \E i \in unset : /\ returned.result = Passes[i]
                                   /\ \A k \in unset : i <= k

\* explain is the next pass: manual is done, explain is not
C15_Witness ==
    /\ returned.op = "getNextReadingPass"
    /\ returned.result = "explain"
    /\ returned.progress.qa

\* C16: getReadingPassCompletionPercentage is 0, 33, 67, 100 for 0, 1, 2, 3
\* true flags, whichever they are; 0 only when none is set, 100 only when all.
C16_PercentageOfCount ==
    returned.op = "getReadingPassCompletionPercentage"
    => LET p == returned.progress
           k == Cardinality({n \in PassNames : p[n]})
       IN  /\ returned.result = <<0, 33, 67, 100>>[k + 1]
           /\ returned.result = 0 <=> \A n \in PassNames : ~p[n]
           /\ returned.result = 100 <=> \A n \in PassNames : p[n]

\* two passes are done, shown as 67
C16_Witness ==
    /\ returned.op = "getReadingPassCompletionPercentage"
    /\ returned.result = 67
    /\ ~returned.progress.manual

\* C17: a toggle flips the flag of its pass and no other flag; the same
\* toggle applied once more gives back the store as it was.
C17_ToggleFlipsOneFlag ==
    [][\A a \in ArticleIds, pass \in PassNames :
          PressPass(a, pass)
          => /\ \A i \in 1..Len(articles) :
                   articles[i].id = a
                   => LET p == articles[i].readingPassProgress
                          q == articles'[i].readingPassProgress
                      IN  /\ q[pass] = ~p[pass]
                          /\ \A o \in PassNames \ {pass} : q[o] = p[o]
             /\ ReadingPassToggled(articles', a, pass) = articles]_vars

\* only the last pass is marked
C17_Witness ==
    \E i \in 1..Len(articles) :
        /\ ~NoReadingPassProgress(articles[i])
        /\ articles[i].readingPassProgress =
              [manual |-> FALSE, explain |-> FALSE, qa |-> TRUE]

\* C18: right after addArticle the new article has the reading-pass progress
\* {manual: false, explain: false, qa: false}.
C18_NewArticleHasNoPassDone ==
    [][\A c \in ArticleContents :
          AddArticle(c)
          => /\ ~NoReadingPassProgress(articles'[1])
             /\ articles'[1].readingPassProgress = initializeReadingPassProgress]_vars

\* C19: whatever the flags are, all of them set included, each of the three
\* toggles is enabled and flips its flag; so the passes can be marked in any
\* order and unmarked again.
C19_EveryToggleEnabled ==
    \A i \in 1..Len(articles) :
        ~NoReadingPassProgress(articles[i])
        => \A pass \in PassNames :
              ENABLED (/\ PressPass(articles[i].id, pass)
                       /\ articles'[i].readingPassProgress[pass] =
                             ~articles[i].readingPassProgress[pass])

\* explain is marked while manual is not
C19_Witness ==
    \E i \in 1..Len(articles) :
        /\ ~NoReadingPassProgress(articles[i])
        /\ articles[i].readingPassProgress.explain
        /\ ~articles[i].readingPassProgress.manual

\* C20: for 0 <= startOffset <= endOffset <= length(content),
\* extractChapterContent returns the characters of content between the two
\* offsets without the whitespace at their beginning and at their end, and
\* leaves the content and the chapter as they were.
C20_ExtractIsTrimmedRange ==
    [][\A s, e \in 0..Len(content) :
          (s <= e /\ ExtractChapterContent(s, e))
          => /\ content' = content
             /\ returned'.chapter = [startOffset |-> s, endOffset |-> e]
             /\ \E i \in s..e : \E j \in i..e :
                   /\ returned'.result = SubSeq(content, i + 1, j)
                   /\ \A k \in (s + 1)..i : content[k] \in Whitespace
                   /\ \A k \in (j + 1)..e : content[k] \in Whitespace
                   /\ i < j => /\ content[i + 1] \notin Whitespace
                               /\ content[j] \notin Whitespace]_vars

\* a range that begins and ends with whitespace gave a non-empty text
C20_Witness ==
    /\ returned.op = "extractChapterContent"
    /\ returned.result # <<>>
    /\ LET s == returned.chapter.startOffset
           e == returned.chapter.endOffset
       IN  /\ 0 <= s /\ s < e /\ e <= Len(content)
           /\ content[s + 1] \in Whitespace
           /\ content[e] \in Whitespace

\* C10: the highlights of an article are listed in the order of their creation.
C10_CreationOrder ==
    \A i \in 1..Len(articles) :
        \A j, k \in 1..Len(articles[i].highlights) :
            j < k => articles[i].highlights[j].ord < articles[i].highlights[k].ord

\* two highlights survive around a deleted one, the first of them updated
C10_Witness ==
    \E i \in 1..Len(articles) :
        LET hs == articles[i].highlights
        IN  /\ Len(hs) = 2
            /\ hs[2].ord - hs[1].ord >= 2
            /\ hs[1].syncStatus = "pending"

====
